---- MODULE Spec2Model ----
(***************************************************************************)
(* Ball Sort Puzzle: the game object (BallSortGame, two variants that ship *)
(* side by side) and the LevelManager it drives.                           *)
(*                                                                         *)
(* Optional JavaScript values (null / undefined / an absent field) are     *)
(* written as sequences of length 0 or 1: <<>> is "no value", <<v>> is v.  *)
(* Arrays are sequences, bottom of a tube first, top of a tube last.       *)
(***************************************************************************)
EXTENDS Integers, Sequences, FiniteSets, TLC

\* ------------------------------------------------------------------------
\* Bounds of the model
\* ------------------------------------------------------------------------
\* cap on currentGameState.moves: no pour is attempted beyond it
MaxMoves == 2
\* cap on the number of handleLevelComplete calls counted per board
MaxCompletions == 2
\* cap on the number of level fetches in flight
MaxPending == 1
\* longest ball sequence and largest capacity of a generated tube
MaxLen == 2
MaxCap == 2

\* ------------------------------------------------------------------------
\* Values
\* ------------------------------------------------------------------------
Null == <<>>
Some(v) == <<v>>

\* this.selectedTube = null
NoTube == -1

Colors == {"red", "blue"}

\* the two BallSortGame classes of the repository
Variants == {"bulk", "single"}

Min(a, b) == IF a <= b THEN a ELSE b
Max(a, b) == IF a >= b THEN a ELSE b

RECURSIVE Reverse(_)
Reverse(s) == IF s = <<>> THEN <<>> ELSE Append(Reverse(Tail(s)), Head(s))

Front(s) == SubSeq(s, 1, Len(s) - 1)
Last(s) == s[Len(s)]

\* the last n elements of s, in the order of s
TopOf(s, n) == SubSeq(s, Len(s) - n + 1, Len(s))

Tube(id, balls, capacity) == [id |-> id, balls |-> balls, capacity |-> capacity]

\* A level file.  tubesOk says that the "tubes" field is an array.  The level
\* files the converters write have no solutionSteps.
Level(levelId, tubesOk, tubes, colors, minMoves, stars, desiredLevel) ==
  [levelId |-> levelId, tubesOk |-> tubesOk, tubes |-> tubes, colors |-> colors,
   minMoves |-> minMoves, stars |-> stars, desiredLevel |-> desiredLevel,
   solutionSteps |-> Null]

\* ------------------------------------------------------------------------
\* LevelManager, pure parts
\* ------------------------------------------------------------------------
\* a validation that does not look at the capacities
validateLevelAnyCapacity(levelData) ==
  /\ levelData.levelId # 0
  /\ levelData.tubesOk
  /\ \A i \in DOMAIN levelData.tubes :
        \A j \in DOMAIN levelData.tubes[i].balls :
           levelData.tubes[i].balls[j] \in levelData.colors

validateLevel(levelData) ==
  /\ levelData.levelId # 0
  /\ levelData.tubesOk
  /\ \A i \in DOMAIN levelData.tubes :
        /\ levelData.tubes[i].capacity >= 1
        /\ \A j \in DOMAIN levelData.tubes[i].balls :
              levelData.tubes[i].balls[j] \in levelData.colors

\* the play copy of a level: the level's fields, tubes copied, moves 0
createGameLevel(levelData) ==
  [levelId |-> levelData.levelId,
   tubes |-> [i \in DOMAIN levelData.tubes |->
                Tube(levelData.tubes[i].id, levelData.tubes[i].balls,
                     levelData.tubes[i].capacity)],
   colors |-> levelData.colors,
   minMoves |-> levelData.minMoves,
   stars |-> levelData.stars,
   desiredLevel |-> levelData.desiredLevel,
   solutionSteps |-> levelData.solutionSteps,
   moves |-> 0]

\* a copy that shares every balls array with the level it copies
ownBallsNone(levelData) == {}

\* positions of the tubes whose balls array the play copy owns, that is, does
\* not share with levelData:  balls: [...tube.balls]  gives every tube its own
ownBalls(levelData) == DOMAIN levelData.tubes

\* levelData as it reads once play has changed the arrays of its play copy gs:
\* an array the two share shows the balls play has put in it
SeenThrough(levelData, gs) ==
  [levelData EXCEPT !.tubes =
     [i \in DOMAIN levelData.tubes |->
        IF i \in ownBalls(levelData) THEN levelData.tubes[i]
        ELSE [levelData.tubes[i] EXCEPT !.balls = gs.tubes[i].balls]]]

\* levels-index.json as the converter writes it
LevelInfo(id) ==
  [id |-> id, unlocked |-> (id = 1), completed |-> FALSE, stars |-> 0,
   bestMoves |-> Null]

\* index of the entry with this id in levels, 0 when there is none
FindLevel(levels, levelId) ==
  IF \E i \in DOMAIN levels : levels[i].id = levelId
  THEN CHOOSE i \in DOMAIN levels :
         /\ levels[i].id = levelId
         /\ \A j \in DOMAIN levels : levels[j].id = levelId => i <= j
  ELSE 0

\* index of the next level's entry, 0 when there is none
getNextLevel(levels, currentLevelId) ==
  LET currentIndex == FindLevel(levels, currentLevelId)
  IN IF currentIndex >= 1 /\ currentIndex < Len(levels) THEN currentIndex + 1 ELSE 0

saveProgress(levels) ==
  Some([version |-> "1.0.0",
        levels |-> [i \in DOMAIN levels |->
                      [id |-> levels[i].id, unlocked |-> levels[i].unlocked,
                       completed |-> levels[i].completed, stars |-> levels[i].stars,
                       bestMoves |-> levels[i].bestMoves]]])

\* a record of the moves of all completions added up
BestMovesTotal(bestMoves, moves) ==
  IF bestMoves # Null /\ bestMoves[1] # 0 THEN Some(bestMoves[1] + moves)
  ELSE Some(moves)

\* levelInfo.bestMoves ? Math.min(levelInfo.bestMoves, moves) : moves
\* (null and 0 are both falsy)
BestMoves(bestMoves, moves) ==
  IF bestMoves # Null /\ bestMoves[1] # 0 THEN Some(Min(bestMoves[1], moves))
  ELSE Some(moves)

\* a completion that does not unlock the next level
completeLevelNoUnlock(levels, levelId, moves, stars) ==
  LET i == FindLevel(levels, levelId)
  IN IF i = 0 THEN levels
     ELSE [j \in DOMAIN levels |->
             IF j = i
             THEN [levels[j] EXCEPT !.completed = TRUE,
                                    !.stars = Max(levels[j].stars, stars),
                                    !.bestMoves = BestMoves(levels[j].bestMoves, moves)]
             ELSE levels[j]]

completeLevel(levels, levelId, moves, stars) ==
  LET i == FindLevel(levels, levelId)
      n == getNextLevel(levels, levelId)
  IN IF i = 0 THEN levels
     ELSE [j \in DOMAIN levels |->
             IF j = i
             THEN [levels[j] EXCEPT !.completed = TRUE,
                                    !.stars = Max(levels[j].stars, stars),
                                    !.bestMoves = BestMoves(levels[j].bestMoves, moves)]
             ELSE IF j = n THEN [levels[j] EXCEPT !.unlocked = TRUE]
             ELSE levels[j]]

\* LevelManager.resetProgress: the index it leaves
resetProgress(levels) ==
  [i \in DOMAIN levels |->
     [levels[i] EXCEPT !.unlocked = (levels[i].id = 1), !.completed = FALSE,
                       !.stars = 0, !.bestMoves = Null]]

\* ------------------------------------------------------------------------
\* BallSortGame, pure parts
\* ------------------------------------------------------------------------
\* a lookup that falls back on the first tube when no tube has the id
FindTubeOrFirst(tubes, tubeId) ==
  IF \E i \in DOMAIN tubes : tubes[i].id = tubeId
  THEN CHOOSE i \in DOMAIN tubes :
         /\ tubes[i].id = tubeId
         /\ \A j \in DOMAIN tubes : tubes[j].id = tubeId => i <= j
  ELSE 1

\* tubes.find(t => t.id === tubeId): index of the first such tube, 0 if none
FindTube(tubes, tubeId) ==
  IF \E i \in DOMAIN tubes : tubes[i].id = tubeId
  THEN CHOOSE i \in DOMAIN tubes :
         /\ tubes[i].id = tubeId
         /\ \A j \in DOMAIN tubes : tubes[j].id = tubeId => i <= j
  ELSE 0

\* a validity check that forgets the destination's capacity
isValidMoveNoFullCheck(v, fromTube, toTube) ==
  IF Len(fromTube.balls) = 0 THEN "No balls to move"
  ELSE IF v = "bulk" /\ fromTube.id = toTube.id THEN "Cannot move to same tube"
  ELSE ""

\* a validity check that looks at the destination before the source
isValidMoveFullFirst(v, fromTube, toTube) ==
  IF Len(toTube.balls) >= toTube.capacity
  THEN (IF v = "bulk" THEN "Destination tube is full" ELSE "Tube is full")
  ELSE IF Len(fromTube.balls) = 0 THEN "No balls to move"
  ELSE IF v = "bulk" /\ fromTube.id = toTube.id THEN "Cannot move to same tube"
  ELSE ""

\* a validity check with a colour rule: a ball goes only onto its own colour
isValidMoveColourMatch(v, fromTube, toTube) ==
  IF Len(fromTube.balls) = 0 THEN "No balls to move"
  ELSE IF v = "bulk" /\ fromTube.id = toTube.id THEN "Cannot move to same tube"
  ELSE IF Len(toTube.balls) >= toTube.capacity
       THEN (IF v = "bulk" THEN "Destination tube is full" ELSE "Tube is full")
  ELSE IF Len(toTube.balls) > 0 /\ Last(toTube.balls) # Last(fromTube.balls)
       THEN "Colours differ"
  ELSE ""

\* the reason an attempt is rejected, "" when it is valid

isValidMove(v, fromTube, toTube) ==
  IF Len(fromTube.balls) = 0 THEN "No balls to move"
  ELSE IF v = "bulk" /\ fromTube.id = toTube.id THEN "Cannot move to same tube"
  ELSE IF Len(toTube.balls) >= toTube.capacity
       THEN (IF v = "bulk" THEN "Destination tube is full" ELSE "Tube is full")
  ELSE ""

\* a push of the top ball that forgets to pop it
PopPushKeepsBall(tubes, f, t) ==
  [tubes EXCEPT ![t].balls = Append(tubes[t].balls, Last(tubes[f].balls))]

\* const ball = fromTube.balls.pop(); toTube.balls.push(ball);
PopPush(tubes, f, t) ==
  LET ball == Last(tubes[f].balls)
      popped == [tubes EXCEPT ![f].balls = Front(tubes[f].balls)]
  IN [popped EXCEPT ![t].balls = Append(popped[t].balls, ball)]

\* a transfer that moves the top n balls as one block, keeping their order
MoveBlock(tubes, f, t, n) ==
  IF n <= 0 THEN tubes
  ELSE [tubes EXCEPT ![f].balls = SubSeq(tubes[f].balls, 1, Len(tubes[f].balls) - n),
                     ![t].balls = tubes[t].balls \o TopOf(tubes[f].balls, n)]

\* for (let i = 0; i < n; i++) { pop; push }
RECURSIVE PopPushTimes(_, _, _, _)
PopPushTimes(tubes, f, t, n) ==
  IF n <= 0 THEN tubes ELSE PopPushTimes(PopPush(tubes, f, t), f, t, n - 1)

\* a bulk pour that ignores the free space of the destination
actualBallsToMoveAll(v, fromTube, toTube) ==
  IF v = "bulk" THEN Len(fromTube.balls) ELSE 1

\* a bulk pour that holds back one ball whenever it could pour two or more
actualBallsToMoveHoldsBack(v, fromTube, toTube) ==
  IF v = "bulk"
  THEN Max(1, Min(Len(fromTube.balls), toTube.capacity - Len(toTube.balls)) - 1)
  ELSE 1

\* a pour of one ball in either class
actualBallsToMoveOne(v, fromTube, toTube) == 1

\* a pour that fills the destination in either class
actualBallsToMoveBulk(v, fromTube, toTube) ==
  Min(Len(fromTube.balls), toTube.capacity - Len(toTube.balls))

\* number of balls one accepted move transfers
actualBallsToMove(v, fromTube, toTube) ==
  IF v = "bulk"
  THEN Min(Len(fromTube.balls), toTube.capacity - Len(toTube.balls))
  ELSE 1

\* a move counter that counts balls instead of pours
performMovePerBall(v, gs, f, t) ==
  LET n == actualBallsToMove(v, gs.tubes[f], gs.tubes[t])
  IN [gs EXCEPT !.tubes = PopPushTimes(gs.tubes, f, t, n), !.moves = gs.moves + n]

\* the game state after performMove(fromTube, toTube)
performMove(v, gs, f, t) ==
  LET n == actualBallsToMove(v, gs.tubes[f], gs.tubes[t])
  IN [gs EXCEPT !.tubes = PopPushTimes(gs.tubes, f, t, n), !.moves = gs.moves + 1]

\* this.currentGameState.desiredLevel || 2  (undefined and 0 are falsy)
desiredLevelOf(gs) ==
  IF gs.desiredLevel # Null /\ gs.desiredLevel[1] # 0 THEN gs.desiredLevel[1] ELSE 2

\* a win check that accepts tubes holding at least the desired number
winConditionAtLeast(v, gs) ==
  IF v = "bulk"
  THEN \A i \in DOMAIN gs.tubes : Len(gs.tubes[i].balls) >= desiredLevelOf(gs)
  ELSE /\ gs.moves >= gs.minMoves
       /\ \E i \in DOMAIN gs.tubes : Len(gs.tubes[i].balls) = 0
       /\ \E i \in DOMAIN gs.tubes : Len(gs.tubes[i].balls) = gs.tubes[i].capacity

\* a shape check that forgets the minimum number of moves
winConditionShapeOnly(v, gs) ==
  IF v = "bulk"
  THEN \A i \in DOMAIN gs.tubes : Len(gs.tubes[i].balls) = desiredLevelOf(gs)
  ELSE /\ \E i \in DOMAIN gs.tubes : Len(gs.tubes[i].balls) = 0
       /\ \E i \in DOMAIN gs.tubes : Len(gs.tubes[i].balls) = gs.tubes[i].capacity

\* does checkWinCondition call handleLevelComplete
winConditionMet(v, gs) ==
  IF v = "bulk"
  THEN \A i \in DOMAIN gs.tubes : Len(gs.tubes[i].balls) = desiredLevelOf(gs)
  ELSE /\ gs.moves >= gs.minMoves
       /\ \E i \in DOMAIN gs.tubes : Len(gs.tubes[i].balls) = 0
       /\ \E i \in DOMAIN gs.tubes : Len(gs.tubes[i].balls) = gs.tubes[i].capacity

\* a hint that is the first step of the solution whatever the move count
hintOfFirstStep(cgs) ==
  IF cgs = Null \/ cgs[1].solutionSteps = Null THEN Null
  ELSE IF 0 < Len(cgs[1].solutionSteps[1]) THEN Some(cgs[1].solutionSteps[1][1])
  ELSE Null

\* the pair showHint displays for this.currentGameState, Null when it displays
\* none (solution[currentMoveIndex] is the element at position moves + 1)
hintOf(cgs) ==
  IF cgs = Null \/ cgs[1].solutionSteps = Null THEN Null
  ELSE IF cgs[1].moves < Len(cgs[1].solutionSteps[1])
       THEN Some(cgs[1].solutionSteps[1][cgs[1].moves + 1])
  ELSE Null

\* updateStars: the star elements shown as earned at this move count
starsShown(moves, stars) == {i \in 1..3 : moves <= stars[i]}

\* a star lookup that never awards the third star
starsEarnedNoThird(moves, stars) ==
  IF moves <= stars[2] THEN 2
  ELSE IF moves <= stars[1] THEN 1
  ELSE 0

\* a star lookup with strict comparisons
starsEarnedStrict(moves, stars) ==
  IF moves < stars[3] THEN 3
  ELSE IF moves < stars[2] THEN 2
  ELSE IF moves < stars[1] THEN 1
  ELSE 0

\* the stars handleLevelComplete computes; stars is <<stars["1"], stars["2"], stars["3"]>>
starsEarnedOf(moves, stars) ==
  IF moves <= stars[3] THEN 3
  ELSE IF moves <= stars[2] THEN 2
  ELSE IF moves <= stars[1] THEN 1
  ELSE 0

\* ------------------------------------------------------------------------
\* Level files and the level index
\* ------------------------------------------------------------------------
\* a playable level: one pour from tube 0 to tube 1 solves it (target fill 2)
LvlPlain ==
  Level(1, TRUE,
        <<Tube(0, <<"red", "blue", "red">>, 3), Tube(1, <<"blue">>, 2),
          Tube(2, <<"red", "blue">>, 3)>>,
        {"red", "blue"}, 1, <<3, 2, 1>>, Null)

\* a tube that starts with more balls than its capacity
LvlOverfull ==
  Level(2, TRUE,
        <<Tube(0, <<"red", "red">>, 1), Tube(1, <<>>, 2)>>,
        {"red"}, 1, <<3, 2, 1>>, Some(1))

\* a level whose initial layout already has every tube at the target fill
LvlSolved ==
  Level(3, TRUE,
        <<Tube(0, <<"red", "red">>, 2), Tube(1, <<"blue", "blue">>, 3)>>,
        {"red", "blue"}, 2, <<2, 1, 0>>, Some(2))

\* desiredLevel: 0
LvlZero ==
  Level(4, TRUE,
        <<Tube(0, <<"red">>, 2), Tube(1, <<"blue", "blue", "red">>, 3)>>,
        {"red", "blue"}, 1, <<1, 1, 2>>, Some(0))

\* a ball whose colour is not in the palette
LvlBadColor ==
  Level(5, TRUE,
        <<Tube(0, <<"red", "green">>, 2), Tube(1, <<>>, 2)>>,
        {"red", "blue"}, 1, <<3, 2, 1>>, Null)

\* two tubes with the same id
LvlDupIds ==
  Level(6, TRUE,
        <<Tube(0, <<"red">>, 2), Tube(0, <<"blue", "blue">>, 2), Tube(1, <<"red">>, 2)>>,
        {"red", "blue"}, 1, <<3, 2, 1>>, Null)

\* a tube of capacity 0
LvlBadCap ==
  Level(7, TRUE,
        <<Tube(0, <<"red">>, 2), Tube(1, <<>>, 0)>>,
        {"red", "blue"}, 1, <<3, 2, 1>>, Null)

\* a file without a "tubes" array
LvlNoTubes ==
  Level(8, FALSE, <<>>, {"red", "blue"}, 1, <<3, 2, 1>>, Null)

Catalog ==
  {LvlPlain, LvlOverfull, LvlSolved, LvlZero, LvlBadColor, LvlDupIds, LvlBadCap,
   LvlNoTubes}

\* levels-index.json: two levels, ids 1 and 2
IndexFile == <<LevelInfo(1), LevelInfo(2)>>
LevelIds == {IndexFile[i].id : i \in DOMAIN IndexFile}

\* tube ids a tap or a move request may name (3 is on no board)
TapIds == {0, 1, 2, 3}

\* ------------------------------------------------------------------------
\* State
\* ------------------------------------------------------------------------
VARIABLES
  conversion,        \* the converter run that wrote level 1 (Null: none is followed)
  variant,           \* which BallSortGame class runs
  files,             \* levels/level-NNN.json, by level id
  phase,             \* "constructed", "loading" (inside init()), "ready"
  levelIndex,        \* levelManager.levelIndex.levels (<<>> until initialize())
  levelsCache,       \* levelManager.levelsCache, by level id
  lmCurrentLevel,    \* levelManager.currentLevel
  localStorage,      \* localStorage['ballSortProgress']
  pending,           \* level ids whose file fetch has not resolved yet
  currentGameState,  \* game.currentGameState
  selectedTube,      \* game.selectedTube
  gameComplete,      \* game.gameComplete
  currentLevel,      \* game.currentLevel
  completions,       \* handleLevelComplete calls since the board was created
  last               \* what the last handler did

vars == <<conversion, variant, files, phase, levelIndex, levelsCache, lmCurrentLevel,
          localStorage, pending, currentGameState, selectedTube, gameComplete,
          currentLevel, completions, last>>

lmVars == <<levelIndex, levelsCache, lmCurrentLevel, localStorage, pending>>
gameVars == <<currentGameState, selectedTube, gameComplete, currentLevel, completions>>

\* the board in play
GS == currentGameState[1]
HasBoard == currentGameState # Null

Did(op, result, reason, from, to, k, won, stars) ==
  [op |-> op, result |-> result, reason |-> reason, from |-> from, to |-> to,
   k |-> k, won |-> won, stars |-> stars]

Note(op, result) == Did(op, result, "", NoTube, NoTube, 0, FALSE, -1)

\* state of a freshly constructed BallSortGame (constructor, lines 7-24)
Constructed ==
  /\ phase = "constructed"
  /\ levelIndex = <<>>
  /\ levelsCache = [id \in LevelIds |-> Null]
  /\ lmCurrentLevel = Null
  /\ localStorage = Null
  /\ pending = <<>>
  /\ currentGameState = Null
  /\ selectedTube = NoTube
  /\ gameComplete = FALSE
  /\ currentLevel = 1
  /\ completions = 0
  /\ last = Note("none", "none")

\* the level files of one installation: any catalogue level next to a playable one
Installations ==
  {[id \in LevelIds |-> IF id = 1 THEN x ELSE LvlPlain] : x \in Catalog}
    \cup {[id \in LevelIds |-> IF id = 1 THEN LvlPlain ELSE x] : x \in Catalog}

Init ==
  /\ conversion = Null
  /\ variant \in Variants
  /\ files \in Installations
  /\ Constructed

\* ------------------------------------------------------------------------
\* Level loading
\* ------------------------------------------------------------------------
\* a load that restores everything but the best move count
loadProgressKeepsBest(levels, saved) ==
  IF saved = Null \/ levels = <<>> THEN levels
  ELSE IF saved[1].version # "1.0.0" THEN levels
  ELSE [i \in DOMAIN levels |->
          LET k == FindLevel(saved[1].levels, levels[i].id)
          IN IF k = 0 THEN levels[i]
             ELSE [levels[i] EXCEPT !.unlocked = saved[1].levels[k].unlocked,
                                    !.completed = saved[1].levels[k].completed,
                                    !.stars = saved[1].levels[k].stars]]

\* LevelManager.loadProgress: apply a saved progress record to the index
loadProgress(levels, saved) ==
  IF saved = Null \/ levels = <<>> THEN levels
  ELSE IF saved[1].version # "1.0.0" THEN levels
  ELSE [i \in DOMAIN levels |->
          LET k == FindLevel(saved[1].levels, levels[i].id)
          IN IF k = 0 THEN levels[i]
             ELSE [levels[i] EXCEPT !.unlocked = saved[1].levels[k].unlocked,
                                    !.completed = saved[1].levels[k].completed,
                                    !.stars = saved[1].levels[k].stars,
                                    !.bestMoves = saved[1].levels[k].bestMoves]]

\* a board replacement that leaves the completion flag and the pending source
\* of the previous board in place
StartBoardKeepsFlags(levelId, levelData) ==
  /\ currentGameState' = Some(createGameLevel(levelData))
  /\ currentLevel' = levelId
  /\ gameComplete' = gameComplete
  /\ selectedTube' = selectedTube
  /\ completions' = 0

\* a board replacement that forgets to record which level the board is of
StartBoardStaleLevel(levelId, levelData) ==
  /\ currentGameState' = Some(createGameLevel(levelData))
  /\ currentLevel' = currentLevel
  /\ gameComplete' = FALSE
  /\ selectedTube' = NoTube
  /\ completions' = 0

\* BallSortGame.loadLevel after levelManager.loadLevel returned levelData
StartBoard(levelId, levelData) ==
  /\ currentGameState' = Some(createGameLevel(levelData))
  /\ currentLevel' = levelId
  /\ gameComplete' = FALSE
  /\ selectedTube' = NoTube
  /\ completions' = 0

\* BallSortGame.loadLevel(levelId) up to the point where it awaits the fetch
RequestLoad(op, levelId) ==
  IF FindLevel(levelIndex, levelId) = 0
  THEN \* "not found in index": thrown, caught by BallSortGame.loadLevel
       /\ last' = Note(op, "loadfailed")
       /\ UNCHANGED <<lmVars, gameVars>>
  ELSE IF levelsCache[levelId] # Null
  THEN /\ lmCurrentLevel' = levelsCache[levelId]
       /\ StartBoard(levelId, levelsCache[levelId][1])
       /\ last' = Note(op, "loaded")
       /\ UNCHANGED <<levelIndex, levelsCache, localStorage, pending>>
  ELSE /\ Len(pending) < MaxPending
       /\ pending' = Append(pending, levelId)
       /\ last' = Note(op, "pending")
       /\ UNCHANGED <<levelIndex, levelsCache, lmCurrentLevel, localStorage, gameVars>>

\* BallSortGame.init(): initialize the level manager, load saved progress,
\* start loading level 1; the event listeners are set up when that load ends
GameInit ==
  /\ phase = "constructed"
  /\ phase' = "loading"
  /\ levelIndex' = loadProgress(IndexFile, localStorage)
  /\ pending' = <<1>>
  /\ last' = Note("init", "pending")
  /\ UNCHANGED <<conversion, variant, files, levelsCache, lmCurrentLevel, localStorage, gameVars>>

\* the fetch of pending[i] resolves; ok is response.ok
FetchResolve(i, ok) ==
  /\ i \in DOMAIN pending
  /\ LET levelId == pending[i]
         levelData == files[levelId]
     IN /\ pending' = SubSeq(pending, 1, i - 1) \o SubSeq(pending, i + 1, Len(pending))
        /\ phase' = "ready"
        /\ IF ok /\ validateLevel(levelData)
           THEN /\ levelsCache' = [levelsCache EXCEPT ![levelId] = Some(levelData)]
                /\ lmCurrentLevel' = Some(levelData)
                /\ StartBoard(levelId, levelData)
                /\ last' = Note("fetch", "loaded")
                /\ UNCHANGED <<levelIndex, localStorage>>
           ELSE /\ last' = Did("fetch", "loadfailed",
                                IF ok THEN "Invalid level data"
                                ELSE "Failed to load level file",
                                NoTube, NoTube, 0, FALSE, -1)
                /\ UNCHANGED <<levelIndex, levelsCache, lmCurrentLevel, localStorage,
                               gameVars>>
  /\ UNCHANGED <<conversion, variant, files>>

\* the Reset and Retry buttons
ResetLevel ==
  /\ phase = "ready"
  /\ IF currentLevel = 0
     THEN last' = Note("reset", "none") /\ UNCHANGED <<lmVars, gameVars>>
     ELSE RequestLoad("reset", currentLevel)
  /\ UNCHANGED <<conversion, variant, files, phase>>

\* the Next Level button
NextLevel ==
  /\ phase = "ready"
  /\ LET n == getNextLevel(levelIndex, currentLevel)
     IN IF n = 0
        THEN last' = Note("next", "none") /\ UNCHANGED <<lmVars, gameVars>>
        ELSE RequestLoad("next", levelIndex[n].id)
  /\ UNCHANGED <<conversion, variant, files, phase>>

\* a button of the level grid; only unlocked levels get a click handler
SelectLevel(levelId) ==
  /\ phase = "ready"
  /\ \E i \in DOMAIN levelIndex : levelIndex[i].id = levelId /\ levelIndex[i].unlocked
  /\ RequestLoad("select", levelId)
  /\ UNCHANGED <<conversion, variant, files, phase>>

\* ------------------------------------------------------------------------
\* Playing
\* ------------------------------------------------------------------------
\* handleLevelComplete on a board gs
LevelComplete(gs) ==
  LET starsEarned == starsEarnedOf(gs.moves, gs.stars)
      levels == completeLevel(levelIndex, currentLevel, gs.moves, starsEarned)
  IN /\ gameComplete' = TRUE
     /\ completions' = completions + 1
     /\ levelIndex' = levels
     /\ localStorage' = IF FindLevel(levelIndex, currentLevel) = 0 THEN localStorage
                        ELSE saveProgress(levels)

\* attemptMove(fromTubeId, toTubeId), called from op
attemptMove(op, fromTubeId, toTubeId) ==
  LET tubes == GS.tubes
      f == FindTube(tubes, fromTubeId)
      t == FindTube(tubes, toTubeId)
  IN IF f = 0 \/ t = 0
     THEN /\ last' = Did(op, "rejected", "Invalid tube IDs", fromTubeId, toTubeId, 0, FALSE, -1)
          /\ UNCHANGED <<lmVars, gameVars>>
     ELSE LET reason == isValidMove(variant, tubes[f], tubes[t])
              k == actualBallsToMove(variant, tubes[f], tubes[t])
              gs == performMove(variant, GS, f, t)
              won == winConditionMet(variant, gs)
          IN IF reason # ""
             THEN /\ last' = Did(op, "rejected", reason, fromTubeId, toTubeId, 0, FALSE, -1)
                  /\ UNCHANGED <<lmVars, gameVars>>
             ELSE /\ GS.moves < MaxMoves
                  /\ won => completions < MaxCompletions
                  /\ currentGameState' = Some(gs)
                  /\ selectedTube' = NoTube
                  /\ IF won
                     THEN LevelComplete(gs)
                     ELSE UNCHANGED <<gameComplete, completions, levelIndex, localStorage>>
                  /\ last' = Did(op, "accepted", "", fromTubeId, toTubeId, k, won,
                                 IF won THEN starsEarnedOf(gs.moves, gs.stars) ELSE -1)
                  /\ levelsCache' =
                       [id \in DOMAIN levelsCache |->
                          IF id = currentLevel /\ levelsCache[id] # Null
                          THEN Some(SeenThrough(levelsCache[id][1], gs))
                          ELSE levelsCache[id]]
                  /\ lmCurrentLevel' =
                       IF lmCurrentLevel # Null /\ lmCurrentLevel = levelsCache[currentLevel]
                       THEN Some(SeenThrough(lmCurrentLevel[1], gs))
                       ELSE lmCurrentLevel
                  /\ UNCHANGED <<pending, currentLevel>>

\* a click handler that also gives up once an attempt has been rejected
clickIgnoredOnceRejected == gameComplete \/ last.result = "rejected"

\* a click handler without the completion check
clickIgnoredNever == FALSE

\* if (this.gameComplete) return;
clickIgnored == gameComplete

\* a selection rule that lets an empty tube become the pending source
canSelectAlways(tube) == TRUE

\* a selection rule under which no tube can become the pending source
canSelectNever(tube) == FALSE

\* if (tube.balls.length > 0) this.selectTube(tubeId)
canSelect(tube) == Len(tube.balls) > 0

\* a same-tube test that never fires, so that a second tap on the pending tube
\* goes on to attemptMove
sameTubeClickedNever(selected, tubeId) == FALSE

\* if (this.selectedTube === tubeId) this.deselectTube()
sameTubeClicked(selected, tubeId) == selected = tubeId

\* handleTubeClick(tubeId): a tap on a rendered tube
Tap(tubeId) ==
  /\ phase = "ready"
  /\ IF clickIgnored
     THEN last' = Note("tap", "ignored") /\ UNCHANGED <<lmVars, gameVars>>
     ELSE IF ~HasBoard
     THEN \* this.currentGameState is null: TypeError, nothing is changed
          last' = Note("tap", "error") /\ UNCHANGED <<lmVars, gameVars>>
     ELSE IF FindTube(GS.tubes, tubeId) = 0
     THEN last' = Note("tap", "notfound") /\ UNCHANGED <<lmVars, gameVars>>
     ELSE IF selectedTube = NoTube
     THEN IF canSelect(GS.tubes[FindTube(GS.tubes, tubeId)])
          THEN /\ selectedTube' = tubeId
               /\ last' = Note("tap", "selected")
               /\ UNCHANGED <<lmVars, currentGameState, gameComplete, currentLevel,
                              completions>>
          ELSE last' = Note("tap", "emptytap") /\ UNCHANGED <<lmVars, gameVars>>
     ELSE IF sameTubeClicked(selectedTube, tubeId)
     THEN /\ selectedTube' = NoTube
          /\ last' = Note("tap", "deselected")
          /\ UNCHANGED <<lmVars, currentGameState, gameComplete, currentLevel, completions>>
     ELSE attemptMove("tap", selectedTube, tubeId)
  /\ UNCHANGED <<conversion, variant, files, phase>>

\* a debug button that completes the level whatever the board holds
TestWinForced ==
  /\ phase = "ready"
  /\ variant = "bulk"
  /\ IF ~HasBoard
     THEN last' = Note("testwin", "error") /\ UNCHANGED <<lmVars, gameVars>>
     ELSE /\ completions < MaxCompletions
          /\ LevelComplete(GS)
          /\ last' = Did("testwin", "checked", "", NoTube, NoTube, 0, TRUE,
                         starsEarnedOf(GS.moves, GS.stars))
          /\ UNCHANGED <<levelsCache, lmCurrentLevel, pending, currentGameState,
                         selectedTube, currentLevel>>
  /\ UNCHANGED <<conversion, variant, files, phase>>

\* the "Test Win" button, which only the bulk-pour class adds
TestWin ==
  /\ phase = "ready"
  /\ variant = "bulk"
  /\ IF ~HasBoard
     THEN last' = Note("testwin", "error") /\ UNCHANGED <<lmVars, gameVars>>
     ELSE IF winConditionMet(variant, GS)
     THEN /\ completions < MaxCompletions
          /\ LevelComplete(GS)
          /\ last' = Did("testwin", "checked", "", NoTube, NoTube, 0, TRUE,
                         starsEarnedOf(GS.moves, GS.stars))
          /\ UNCHANGED <<levelsCache, lmCurrentLevel, pending, currentGameState,
                         selectedTube, currentLevel>>
     ELSE last' = Note("testwin", "checked") /\ UNCHANGED <<lmVars, gameVars>>
  /\ UNCHANGED <<conversion, variant, files, phase>>

\* the Hint button
ShowHint ==
  /\ phase = "ready"
  /\ LET h == hintOf(currentGameState)
     IN last' = IF h = Null THEN Note("hint", "nohint")
                ELSE Did("hint", "hint", "", h[1][1], h[1][2], 0, FALSE, -1)
  /\ UNCHANGED <<conversion, variant, files, phase, lmVars, gameVars>>

Next ==
  \/ GameInit
  \/ \E i \in 1..MaxPending, ok \in BOOLEAN : FetchResolve(i, ok)
  \/ ResetLevel
  \/ NextLevel
  \/ \E levelId \in LevelIds : SelectLevel(levelId)
  \/ \E tubeId \in TapIds : Tap(tubeId)
  \/ TestWin
  \/ ShowHint

Spec == Init /\ [][Next]_vars

\* ------------------------------------------------------------------------
\* The engine on its own: attemptMove called directly on generated boards
\* ------------------------------------------------------------------------
\* ball sequences of length at most n
RECURSIVE BallSeqs(_)
BallSeqs(n) ==
  IF n = 0 THEN {<<>>}
  ELSE BallSeqs(n - 1) \cup
       {Append(s, c) : s \in {x \in BallSeqs(n - 1) : Len(x) = n - 1}, c \in Colors}

\* every tube with the given id, at most MaxLen balls and capacity 1..MaxCap;
\* tubes holding more balls than their capacity are among them
TubesWithId(id) == {Tube(id, b, c) : b \in BallSeqs(MaxLen), c \in 1..MaxCap}

\* tubes of one colour
PlainTube(id, n, c) == Tube(id, [i \in 1..n |-> "red"], c)

\* a tube of any content, a tube of one colour and a bystander; default target fill
PourLevels ==
  {Level(1, TRUE, <<t0, PlainTube(1, n, c), Tube(2, <<"blue">>, 2)>>, Colors, 1,
         <<3, 2, 1>>, Null) :
     t0 \in TubesWithId(0), n \in 0..MaxLen, c \in 1..MaxCap}

\* two tubes of one colour that respect their capacity, one more ball and one
\* more place than in PourLevels, every kind of desiredLevel
RespectsCapacity(tubes) ==
  \A i \in DOMAIN tubes : Len(tubes[i].balls) <= tubes[i].capacity

WinLevels ==
  {l \in {Level(1, TRUE, <<PlainTube(0, n0, c0), PlainTube(1, n1, MaxCap + 1)>>,
                Colors, 1, <<3, 2, 1>>, d) :
             c0 \in 1..(MaxCap + 1), n0 \in 0..(MaxLen + 1), n1 \in 0..(MaxCap + 1),
             d \in {Null} \cup {Some(n) : n \in 0..(MaxCap + 1)}} :
     RespectsCapacity(l.tubes)}

\* boards that can be completed at several move counts, every threshold triple
StarLevels ==
  {Level(1, TRUE, tubes, Colors, 1, <<s1, s2, s3>>, Null) :
     tubes \in {LvlSolved.tubes, <<Tube(0, <<"red">>, 1), Tube(1, <<"blue">>, 2)>>},
     s1 \in 0..MaxMoves, s2 \in 0..MaxMoves, s3 \in 0..MaxMoves}

\* one board with every kind of solutionSteps: none, an empty list, one step,
\* two steps
HintSteps == {<<0, 1>>, <<1, 0>>}

HintLevels ==
  {[Level(1, TRUE, <<Tube(0, <<"red">>, 2), Tube(1, <<"blue">>, 3)>>, Colors, 1,
          <<3, 2, 1>>, Some(3)) EXCEPT !.solutionSteps = steps] :
     steps \in {Null, Some(<<>>)} \cup {Some(<<p>>) : p \in HintSteps}
               \cup {Some(<<p, q>>) : p \in HintSteps, q \in HintSteps}}

\* small boards with every minMoves up to one more than the moves a board
\* can count
ShapeLevels ==
  {Level(1, TRUE, <<t0, t1>>, Colors, m, <<3, 2, 1>>, Some(3)) :
     t0 \in {Tube(0, <<"red">>, 1), Tube(0, <<"red">>, 2)},
     t1 \in {Tube(1, <<>>, 1), Tube(1, <<"blue">>, 2)},
     m \in 0..(MaxMoves + 1)}

EngineLevels ==
  PourLevels \cup WinLevels \cup StarLevels \cup HintLevels \cup ShapeLevels

\* the state in which level 1 has just been loaded from levelData
Loaded(levelData) ==
  /\ files = [id \in LevelIds |-> IF id = 1 THEN levelData ELSE LvlPlain]
  /\ phase = "ready"
  /\ levelIndex = IndexFile
  /\ levelsCache = [id \in LevelIds |-> IF id = 1 THEN Some(levelData) ELSE Null]
  /\ lmCurrentLevel = Some(levelData)
  /\ localStorage = Null
  /\ pending = <<>>
  /\ currentGameState = Some(createGameLevel(levelData))
  /\ selectedTube = NoTube
  /\ gameComplete = FALSE
  /\ currentLevel = 1
  /\ completions = 0
  /\ last = Note("fetch", "loaded")

\* level 1 is any level of the family that validateLevel lets through
EngineInit ==
  /\ conversion = Null
  /\ variant \in Variants
  /\ \E levelData \in EngineLevels : validateLevel(levelData) /\ Loaded(levelData)

\* a direct call of attemptMove(fromTubeId, toTubeId)
MoveRequest(fromTubeId, toTubeId) ==
  /\ phase = "ready"
  /\ HasBoard
  /\ attemptMove("move", fromTubeId, toTubeId)
  /\ UNCHANGED <<conversion, variant, files, phase>>

\* tube ids a direct request names: the two generated tubes and one that is on
\* no board
MoveIds == {0, 1, 3}

EngineNext ==
  \/ \E fromTubeId \in MoveIds, toTubeId \in MoveIds : MoveRequest(fromTubeId, toTubeId)
  \/ TestWin
  \/ ShowHint

EngineSpec == EngineInit /\ [][EngineNext]_vars

\* ------------------------------------------------------------------------
\* The level manager on its own: completeLevel, saveProgress, resetProgress
\* called directly, and page reloads that read the saved progress back
\* ------------------------------------------------------------------------
\* levels-index.json with three levels
ProgressIndexFile == <<LevelInfo(1), LevelInfo(2), LevelInfo(3)>>

\* the stars a completion can report
StarRanks == 0..3

\* level ids a caller may pass: the three levels and one that is in no index
ProgressIds == 1..4

\* a page on which initialize() and loadProgress() have run with nothing saved
ProgressInit ==
  /\ conversion = Null
  /\ variant = "bulk"
  /\ files = [id \in LevelIds |-> LvlPlain]
  /\ phase = "ready"
  /\ levelIndex = loadProgress(ProgressIndexFile, Null)
  /\ levelsCache = [id \in LevelIds |-> Null]
  /\ lmCurrentLevel = Null
  /\ localStorage = Null
  /\ pending = <<>>
  /\ currentGameState = Null
  /\ selectedTube = NoTube
  /\ gameComplete = FALSE
  /\ currentLevel = 1
  /\ completions = 0
  /\ last = Note("none", "none")

\* levelManager.completeLevel(levelId, moves, stars)
CompleteLevelCall(levelId, moves, stars) ==
  /\ levelIndex' = completeLevel(levelIndex, levelId, moves, stars)
  /\ localStorage' = IF FindLevel(levelIndex, levelId) = 0 THEN localStorage
                     ELSE saveProgress(levelIndex')
  /\ last' = Note("complete", IF FindLevel(levelIndex, levelId) = 0 THEN "none" ELSE "done")
  /\ UNCHANGED <<conversion, variant, files, phase, levelsCache, lmCurrentLevel, pending, gameVars>>

\* levelManager.saveProgress()
SaveProgressCall ==
  /\ localStorage' = saveProgress(levelIndex)
  /\ last' = Note("save", "done")
  /\ UNCHANGED <<conversion, variant, files, phase, levelIndex, levelsCache, lmCurrentLevel, pending,
                 gameVars>>

\* levelManager.resetProgress()
ResetProgressCall ==
  /\ levelIndex' = resetProgress(levelIndex)
  /\ localStorage' = Null
  /\ last' = Note("resetprogress", "done")
  /\ UNCHANGED <<conversion, variant, files, phase, levelsCache, lmCurrentLevel, pending, gameVars>>

\* the page is loaded again: initialize() reads the index file, loadProgress()
\* applies what localStorage holds
Reload ==
  /\ levelIndex' = loadProgress(ProgressIndexFile, localStorage)
  /\ last' = Note("reload", "done")
  /\ UNCHANGED <<conversion, variant, files, phase, levelsCache, lmCurrentLevel, localStorage, pending,
                 gameVars>>

ProgressNext ==
  \/ \E levelId \in ProgressIds, moves \in 0..MaxMoves, stars \in StarRanks :
        CompleteLevelCall(levelId, moves, stars)
  \/ SaveProgressCall
  \/ ResetProgressCall
  \/ Reload

ProgressSpec == ProgressInit /\ [][ProgressNext]_vars

\* ------------------------------------------------------------------------
\* The converters: a puzzle file is converted into levels/level-001.json, the
\* game is started on it and played by direct calls of attemptMove
\* ------------------------------------------------------------------------
\* this.colors of both converter classes
converterColors ==
  <<"red", "blue", "green", "yellow", "purple", "orange", "pink", "brown", "gray", "cyan">>

Converters == {"BallSortConverter", "LevelConverter"}

RECURSIVE Sum(_)
\* initialState.reduce((sum, count) => sum + count, 0)
Sum(s) == IF s = <<>> THEN 0 ELSE s[1] + Sum(Tail(s))

\* Math.ceil(a / b) for a >= 0, b >= 1
CeilDiv(a, b) == (a + b - 1) \div b

\* the nested push loops: colours[1] n times, then colours[2] n times, ...
ColourRuns(colours, n) ==
  [k \in 1..(Len(colours) * n) |-> colours[((k - 1) \div n) + 1]]

\* allBalls of BallSortConverter.convertPuzzle before the shuffle:
\* Math.ceil(totalBalls / desiredLevel) colours, desiredLevel balls of each
allBallsBallSort(puzzle) ==
  LET totalBalls == Sum(puzzle.initialState)
      numColors == CeilDiv(totalBalls, puzzle.desiredLevel)
  IN ColourRuns([i \in 1..numColors |-> converterColors[((i - 1) % 10) + 1]],
                puzzle.desiredLevel)

\* colorsArray of LevelConverter.convertPuzzle: the colour of every tube that
\* starts with a ball, in tube order (a Set: each colour once)
colorsArray(puzzle) ==
  LET tubeColor == [i \in DOMAIN puzzle.initialState |-> converterColors[((i - 1) % 10) + 1]]
      firstUse(i) == \A j \in 1..(i - 1) :
                        puzzle.initialState[j] > 0 => tubeColor[j] # tubeColor[i]
      idx == {i \in DOMAIN puzzle.initialState : puzzle.initialState[i] > 0 /\ firstUse(i)}
      Nth(k) == CHOOSE i \in idx : Cardinality({j \in idx : j < i}) = k - 1
  IN [k \in 1..Cardinality(idx) |-> tubeColor[Nth(k)]]

\* allBalls of LevelConverter.convertPuzzle before the shuffle:
\* Math.floor(totalBalls / colorsArray.length) balls of each colour
\* (no colour, NaN balls each: neither loop runs)
allBallsLevel(puzzle) ==
  LET totalBalls == Sum(puzzle.initialState)
      cs == colorsArray(puzzle)
  IN IF Len(cs) = 0 THEN <<>> ELSE ColourRuns(cs, totalBalls \div Len(cs))

allBallsOf(converter, puzzle) ==
  IF converter = "BallSortConverter" THEN allBallsBallSort(puzzle) ELSE allBallsLevel(puzzle)

\* the orders shuffleArray can leave the balls in: Math.random decides, every
\* permutation can come out
Shuffles(balls) ==
  {[i \in 1..Len(balls) |-> balls[pi[i]]] : pi \in Permutations(1..Len(balls))}

RECURSIVE dealTubes(_, _, _, _, _)
\* the tube loop from tube i on, ballIndex balls dealt so far: tube i takes
\* initialState[i] balls while ballIndex < allBalls.length
dealTubes(initialState, bottleCapacities, allBalls, i, ballIndex) ==
  IF i > Len(initialState) THEN <<>>
  ELSE LET taken == Min(initialState[i], Len(allBalls) - ballIndex)
       IN <<Tube(i - 1, SubSeq(allBalls, ballIndex + 1, ballIndex + taken),
                 bottleCapacities[i])>>
            \o dealTubes(initialState, bottleCapacities, allBalls, i + 1, ballIndex + taken)

\* convertPuzzle of either class, allBalls being the balls after the shuffle;
\* neither class writes a desiredLevel field
convertPuzzle(converter, puzzle, levelId, allBalls) ==
  LET m == puzzle.movesToSolve
  IN Level(levelId, TRUE,
           dealTubes(puzzle.initialState, puzzle.bottleCapacities, allBalls, 1, 0),
           {allBalls[k] : k \in DOMAIN allBalls},
           m,
           IF converter = "BallSortConverter"
           THEN <<CeilDiv(25 * m, 10), CeilDiv(18 * m, 10), m>>
           ELSE <<CeilDiv(20 * m, 10), CeilDiv(15 * m, 10), m>>,
           Null)

\* puzzle files: two tubes, every start count within the tube's capacity
Puzzles ==
  {p \in {[initialState |-> <<a, b>>, bottleCapacities |-> <<ca, cb>>,
           desiredLevel |-> d, movesToSolve |-> m] :
            a \in 0..MaxCap, b \in 0..MaxCap, ca \in 1..MaxCap, cb \in 1..MaxCap,
            d \in 1..MaxCap, m \in 1..MaxMoves} :
     \A i \in DOMAIN p.initialState : p.initialState[i] <= p.bottleCapacities[i]}

ConvertInit ==
  /\ conversion \in {Some([converter |-> converter, puzzle |-> puzzle, written |-> FALSE]) :
                        converter \in Converters, puzzle \in Puzzles}
  /\ variant \in Variants
  /\ files = [id \in LevelIds |-> LvlPlain]
  /\ Constructed

\* the converter script writes levels/level-001.json; shuffled is what
\* shuffleArray left in allBalls
ConvertPuzzle ==
  /\ ~conversion[1].written
  /\ phase = "constructed"
  /\ \E shuffled \in Shuffles(allBallsOf(conversion[1].converter, conversion[1].puzzle)) :
        files' = [files EXCEPT ![1] = convertPuzzle(conversion[1].converter,
                                                    conversion[1].puzzle, 1, shuffled)]
  /\ conversion' = Some([conversion[1] EXCEPT !.written = TRUE])
  /\ last' = Note("convert", "written")
  /\ UNCHANGED <<variant, phase, lmVars, gameVars>>

\* the page is opened once the converter has written the level file
OpenConverted ==
  /\ conversion[1].written
  /\ GameInit

ConvertNext ==
  \/ ConvertPuzzle
  \/ OpenConverted
  \/ \E i \in 1..MaxPending, ok \in BOOLEAN : FetchResolve(i, ok)
  \/ \E fromTubeId \in MoveIds, toTubeId \in MoveIds : MoveRequest(fromTubeId, toTubeId)

ConvertSpec == ConvertInit /\ [][ConvertNext]_vars

\* ------------------------------------------------------------------------
\* Properties
\* ------------------------------------------------------------------------
\* the board before and after a step
Before == currentGameState[1]
After == currentGameState'[1]

\* the step just taken was a move attempt on a board
MoveStep == HasBoard /\ last'.op \in {"move", "tap"} /\ last'.result \in {"accepted", "rejected"}
AcceptedStep == MoveStep /\ last'.result = "accepted"
RejectedStep == MoveStep /\ last'.result = "rejected"

\* positions, on the board before the step, of the tubes the attempt named
FromIdx == FindTube(Before.tubes, last'.from)
ToIdx == FindTube(Before.tubes, last'.to)

\* number of balls of colour c on a board
RECURSIVE CountIn(_, _)
CountIn(balls, c) ==
  IF balls = <<>> THEN 0
  ELSE (IF Head(balls) = c THEN 1 ELSE 0) + CountIn(Tail(balls), c)

RECURSIVE CountOnBoard(_, _)
CountOnBoard(tubes, c) ==
  IF tubes = <<>> THEN 0
  ELSE CountIn(Head(tubes).balls, c) + CountOnBoard(Tail(tubes), c)

\* C1: every tube of the current board holds at most its capacity.
C1_CapacityInvariant ==
  HasBoard => \A i \in DOMAIN GS.tubes : Len(GS.tubes[i].balls) <= GS.tubes[i].capacity

\* C2: a move attempt, accepted or rejected, in either variant, leaves the
\* number of balls of every colour on the board as it was.
C2_BallConservation ==
  [][MoveStep =>
       \A c \in Colors : CountOnBoard(After.tubes, c) = CountOnBoard(Before.tubes, c)]_vars

\* a pour of two or more balls has been accepted
C2_Witness ==
  /\ last.op = "move" /\ last.result = "accepted" /\ last.k >= 2
  /\ \E c \in Colors : CountOnBoard(GS.tubes, c) >= 2

\* C3: an accepted move adds exactly 1 to the move count, however many balls
\* it pours; a rejected attempt leaves the move count unchanged.
C3_MoveCount ==
  [][/\ AcceptedStep => After.moves = Before.moves + 1
     /\ RejectedStep => After.moves = Before.moves]_vars

\* an attempt was rejected on a board that earlier accepted a pour of several balls
C3_Witness ==
  /\ last.op = "move" /\ last.result = "rejected" /\ GS.moves >= 1

\* C4: an attempt whose source tube is empty or whose destination tube is at
\* capacity changes no tube and does not change the completion flag.
C4_RejectionNoMutation ==
  [][(/\ HasBoard /\ last'.op = "move"
      /\ FromIdx # 0 /\ ToIdx # 0
      /\ \/ Len(Before.tubes[FromIdx].balls) = 0
         \/ Len(Before.tubes[ToIdx].balls) >= Before.tubes[ToIdx].capacity)
     => /\ last'.result = "rejected"
        /\ After.tubes = Before.tubes
        /\ gameComplete' = gameComplete]_vars

\* an attempt into a full tube from a tube that holds balls was rejected
C4_Witness ==
  /\ last.op = "move" /\ last.result = "rejected"
  /\ last.reason \in {"Destination tube is full", "Tube is full"}
  /\ Len(GS.tubes[FindTube(GS.tubes, last.from)].balls) > 0

\* the target fill as the claim words it: desiredLevel, or 2 when there is none
TargetFillIfGiven(gs) == IF gs.desiredLevel = Null THEN 2 ELSE gs.desiredLevel[1]

\* the target fill the count-based check uses: a desiredLevel of 0 counts as absent
TargetFill(gs) ==
  IF gs.desiredLevel = Null \/ gs.desiredLevel = Some(0) THEN 2 ELSE gs.desiredLevel[1]

\* the step called handleLevelComplete
CompletionTriggered == completions' = completions + 1

C6_CompletionOnce == completions = (IF gameComplete THEN 1 ELSE 0)

\* C7 as claimed: while the board satisfies the win condition, a tap changes
\* neither the tubes nor the move count.
C7_SolvedBoardFrozen ==
  [][(HasBoard /\ winConditionMet(variant, Before) /\ last'.op = "tap")
       => currentGameState' = currentGameState]_vars

\* C7 amended: once completion has been triggered for the board (the completion
\* flag is set), a tap changes neither the tubes nor the move count.
C7_CompletedBoardFrozen ==
  [][(HasBoard /\ gameComplete /\ last'.op = "tap")
       => currentGameState' = currentGameState]_vars

\* a tap arrived on a completed board with a tube that still holds balls
C7_Witness ==
  /\ gameComplete /\ last.op = "tap" /\ last.result = "ignored"
  /\ \E i \in DOMAIN GS.tubes : Len(GS.tubes[i].balls) > 0

\* C8: an accepted bulk pour from A to B moves exactly
\* min(length(A.balls), B.capacity - length(B.balls)) balls.
C8_BulkPourAmount ==
  [][(variant = "bulk" /\ AcceptedStep) =>
       LET A == Before.tubes[FromIdx]
           B == Before.tubes[ToIdx]
           n == Min(Len(A.balls), B.capacity - Len(B.balls))
       IN /\ Len(After.tubes[FromIdx].balls) = Len(A.balls) - n
          /\ Len(After.tubes[ToIdx].balls) = Len(B.balls) + n]_vars

\* a bulk pour filled the destination and left balls in the source
C8_Witness ==
  /\ variant = "bulk" /\ last.op = "move" /\ last.result = "accepted" /\ last.k >= 1
  /\ Len(GS.tubes[FindTube(GS.tubes, last.from)].balls) >= 1
  /\ Len(GS.tubes[FindTube(GS.tubes, last.to)].balls)
       = GS.tubes[FindTube(GS.tubes, last.to)].capacity

\* C9: an accepted pour of k balls between two tubes removes the last k balls
\* of the source, appends them to the destination in reversed order (the top
\* ball of the source first), and changes no other tube.
C9_PourOrder ==
  [][(AcceptedStep /\ last'.from # last'.to) =>
       LET A == Before.tubes[FromIdx].balls
           B == Before.tubes[ToIdx].balls
           k == Len(A) - Len(After.tubes[FromIdx].balls)
       IN /\ k >= 1
          /\ After.tubes[FromIdx].balls = SubSeq(A, 1, Len(A) - k)
          /\ After.tubes[ToIdx].balls = B \o Reverse(TopOf(A, k))
          /\ DOMAIN After.tubes = DOMAIN Before.tubes
          /\ \A i \in DOMAIN Before.tubes :
               /\ i \notin {FromIdx, ToIdx} => After.tubes[i] = Before.tubes[i]
               /\ After.tubes[i].id = Before.tubes[i].id
               /\ After.tubes[i].capacity = Before.tubes[i].capacity]_vars

\* two balls of different colours were poured: the one that was on top of the
\* source now lies under the other
C9_Witness ==
  /\ last.op = "move" /\ last.result = "accepted" /\ last.k = 2
  /\ LET b == GS.tubes[FindTube(GS.tubes, last.to)].balls
     IN Len(b) >= 2 /\ b[Len(b)] # b[Len(b) - 1]

\* C10: the stars awarded at completion are 3 if moves <= stars[3], else 2 if
\* moves <= stars[2], else 1 if moves <= stars[1], else 0, for any thresholds.
C10_Stars ==
  (HasBoard /\ last.won) =>
    LET m == GS.moves
        t == GS.stars
    IN /\ last.stars \in 0..3
       /\ last.stars = 3 <=> m <= t[3]
       /\ last.stars = 2 <=> (m > t[3] /\ m <= t[2])
       /\ last.stars = 1 <=> (m > t[3] /\ m > t[2] /\ m <= t[1])
       /\ last.stars = 0 <=> (m > t[3] /\ m > t[2] /\ m > t[1])

\* three stars were awarded under thresholds that are not monotone, at a move
\* count above the one-star threshold
C10_Witness ==
  /\ HasBoard /\ last.won /\ last.stars = 3
  /\ GS.stars[3] > GS.stars[1] /\ GS.moves > GS.stars[1] /\ GS.moves >= 1

\* the step issued a move attempt (from, to)
Attempted(from, to) ==
  /\ last'.result \in {"accepted", "rejected"}
  /\ last'.from = from /\ last'.to = to

\* the step issued no move attempt and changed no board
NoAttempt ==
  /\ last'.result \notin {"accepted", "rejected"}
  /\ currentGameState' = currentGameState

\* what the selection protocol promises for a tap on tube tubeId of the board
TapProtocol(tubeId) ==
  LET i == FindTube(GS.tubes, tubeId)
  IN /\ (selectedTube = NoTube /\ Len(GS.tubes[i].balls) > 0)
          => (selectedTube' = tubeId /\ NoAttempt)
     /\ (selectedTube # NoTube /\ selectedTube # tubeId)
          => Attempted(selectedTube, tubeId)
     /\ selectedTube = tubeId
          => (selectedTube' = NoTube /\ NoAttempt)

\* C11 as claimed: with no tube pending, a tap on a non-empty tube makes it the
\* pending source and leaves the board unchanged; with S pending, a tap on a
\* different tube T issues the move attempt (S, T); a tap on S clears the
\* pending source with no move attempt and no board change.
C11_TapProtocol ==
  [][\A tubeId \in TapIds :
       (Tap(tubeId) /\ HasBoard /\ FindTube(GS.tubes, tubeId) # 0)
         => TapProtocol(tubeId)]_vars

\* C11 amended: the same, for taps on a board whose completion flag is not set.
C11_TapProtocolWhilePlaying ==
  [][\A tubeId \in TapIds :
       (Tap(tubeId) /\ HasBoard /\ FindTube(GS.tubes, tubeId) # 0 /\ ~gameComplete)
         => TapProtocol(tubeId)]_vars

\* a second tap on a different tube issued an attempt that was rejected, and
\* the first tube is still the pending source
C11_Witness ==
  /\ last.op = "tap" /\ last.result = "rejected" /\ ~gameComplete
  /\ last.from # last.to /\ selectedTube = last.from

\* C12: play never changes a cached level definition: after any step every
\* cached definition still has the contents of the file it was loaded from,
\* and a reset that is served from the cache starts from that layout, with no
\* move counted.
C12_TemplateUntouched ==
  [][/\ \A id \in LevelIds : levelsCache'[id] # Null => levelsCache'[id] = Some(files[id])
     /\ AcceptedStep => (levelsCache' = levelsCache /\ lmCurrentLevel' = lmCurrentLevel)
     /\ (last'.op = "reset" /\ last'.result = "loaded")
          => (After.tubes = files[currentLevel'].tubes /\ After.moves = 0)]_vars

\* a level was reset after it had been completed by pouring
C12_Witness ==
  /\ last.op = "reset" /\ last.result = "loaded"
  /\ LET info == levelIndex[FindLevel(levelIndex, currentLevel)]
     IN info.completed /\ info.bestMoves # Null /\ info.bestMoves[1] >= 1
  /\ GS.tubes = files[currentLevel].tubes /\ GS.moves = 0

\* a level definition with no tubes array, a ball outside its palette or a
\* tube capacity below 1
InvalidLevel(levelData) ==
  \/ ~levelData.tubesOk
  \/ \E i \in DOMAIN levelData.tubes :
        \/ levelData.tubes[i].capacity < 1
        \/ \E j \in DOMAIN levelData.tubes[i].balls :
              levelData.tubes[i].balls[j] \notin levelData.colors

\* C13: an invalid level definition is never cached, never the level manager's
\* current level and never the source of a board; the load of one fails and
\* leaves the board, the move count, the completion flag and the game's
\* current level as they were.
C13_InvalidLevelRefused ==
  [][\A id \in LevelIds :
       InvalidLevel(files[id]) =>
         /\ levelsCache'[id] = Null
         /\ lmCurrentLevel' # Some(files[id])
         /\ (currentGameState' # Null => After.levelId # files[id].levelId)
         /\ \A i \in 1..MaxPending, ok \in BOOLEAN :
              (FetchResolve(i, ok) /\ pending[i] = id) =>
                /\ last'.result = "loadfailed"
                /\ currentGameState' = currentGameState
                /\ gameComplete' = gameComplete
                /\ currentLevel' = currentLevel]_vars

\* the file of an invalid level arrived while a board with a move on it was in
\* play, and the load failed
C13_Witness ==
  /\ last.op = "fetch" /\ last.result = "loadfailed"
  /\ last.reason = "Invalid level data"
  /\ HasBoard /\ GS.moves >= 1
  /\ \E id \in LevelIds : InvalidLevel(files[id]) /\ levelsCache[id] = Null

\* C14: an attempt whose source tube is empty and whose destination tube is at
\* capacity is rejected with the reason of the empty source, in both variants.
C14_EmptySourceFirst ==
  [][(/\ HasBoard /\ last'.op = "move"
      /\ FromIdx # 0 /\ ToIdx # 0
      /\ Len(Before.tubes[FromIdx].balls) = 0
      /\ Len(Before.tubes[ToIdx].balls) >= Before.tubes[ToIdx].capacity)
     => /\ last'.result = "rejected"
        /\ last'.reason = "No balls to move"]_vars

\* an attempt from an empty tube into another tube that is full was rejected
C14_Witness ==
  /\ last.op = "move" /\ last.result = "rejected" /\ last.from # last.to
  /\ LET f == FindTube(GS.tubes, last.from)
         t == FindTube(GS.tubes, last.to)
     IN /\ f # 0 /\ t # 0
        /\ Len(GS.tubes[f].balls) = 0
        /\ Len(GS.tubes[t].balls) = GS.tubes[t].capacity

\* C15: the hint is solutionSteps[moveCount] when the level has solutionSteps
\* and moveCount is less than their number, and no hint otherwise; asking for
\* it changes nothing of the game or of the level manager.
C15_Hint ==
  [][last'.op = "hint" =>
       /\ UNCHANGED <<lmVars, gameVars>>
       /\ IF /\ HasBoard /\ GS.solutionSteps # Null
             /\ GS.moves < Len(GS.solutionSteps[1])
          THEN /\ last'.result = "hint"
               /\ <<last'.from, last'.to>> = GS.solutionSteps[1][GS.moves + 1]
          ELSE last'.result = "nohint"]_vars

\* the second step of the solution was shown after one move that was not the
\* first step of the solution: the solution starts with a pour out of tube 1,
\* and tube 1 holds more balls than the level gave it
C15_Witness ==
  /\ last.op = "hint" /\ last.result = "hint"
  /\ GS.moves = 1 /\ GS.solutionSteps # Null
  /\ GS.solutionSteps[1][1] = <<1, 0>>
  /\ <<last.from, last.to>> = GS.solutionSteps[1][2]
  /\ Len(GS.tubes[FindTube(GS.tubes, 1)].balls)
       > Len(files[1].tubes[FindTube(files[1].tubes, 1)].balls)

\* the step before this state ran the win check: an accepted move or a press
\* of the Test Win button on a board
JustChecked ==
  HasBoard /\ (last.result = "accepted" \/ (last.op = "testwin" /\ last.result = "checked"))

\* C16: a win check that follows a win check, with no move in between, has
\* the same outcome as the first and leaves the completion flag, the recorded
\* stars and best moves, the unlocked levels and the saved progress as the
\* first left them.
C16_WinCheckIdempotent ==
  [][(JustChecked /\ last'.op = "testwin") =>
       /\ last'.result = "checked"
       /\ last'.won = last.won
       /\ last'.won => last'.stars = last.stars
       /\ gameComplete' = gameComplete
       /\ levelIndex' = levelIndex
       /\ localStorage' = localStorage
       /\ currentGameState' = currentGameState]_vars

\* the win check ran again on a board that a move had completed
C16_Witness ==
  /\ last.op = "testwin" /\ last.won /\ completions = 2 /\ GS.moves >= 1
  /\ LET info == levelIndex[FindLevel(levelIndex, currentLevel)]
     IN info.completed /\ info.bestMoves = Some(GS.moves)

\* C17: an attempt whose source tube holds a ball and whose destination is
\* another tube with free capacity is accepted, whatever the colours in the
\* two tubes.
C17_NoColourRule ==
  [][(/\ MoveStep
      /\ FromIdx # 0 /\ ToIdx # 0 /\ FromIdx # ToIdx
      /\ Len(Before.tubes[FromIdx].balls) > 0
      /\ Len(Before.tubes[ToIdx].balls) < Before.tubes[ToIdx].capacity)
     => last'.result = "accepted"]_vars

\* one ball was poured onto a ball of the other colour
C17_Witness ==
  /\ last.op = "move" /\ last.result = "accepted" /\ last.k = 1
  /\ LET b == GS.tubes[FindTube(GS.tubes, last.to)].balls
     IN Len(b) >= 2 /\ b[Len(b)] = "blue" /\ b[Len(b) - 1] = "red"

\* some tube of the board has this id
OnBoard(tubes, tubeId) == \E i \in DOMAIN tubes : tubes[i].id = tubeId

\* the step is a request that names a tube id absent from the board: a call of
\* attemptMove with such an id, or a tap that carries one
UnknownTubeStep ==
  /\ HasBoard
  /\ \/ /\ last'.op = "move"
        /\ ~OnBoard(GS.tubes, last'.from) \/ ~OnBoard(GS.tubes, last'.to)
     \/ \E tubeId \in TapIds : Tap(tubeId) /\ ~OnBoard(GS.tubes, tubeId)

\* C18: a request that names a tube id absent from the board changes no tube,
\* leaves the move count, the pending source and the completion flag as they
\* were, and does not run the win check (no completion is recorded, even on a
\* board that satisfies the win condition).
C18_UnknownTube ==
  [][UnknownTubeStep =>
       /\ currentGameState' = currentGameState
       /\ selectedTube' = selectedTube
       /\ gameComplete' = gameComplete
       /\ completions' = completions
       /\ levelIndex' = levelIndex
       /\ ~last'.won]_vars

\* attemptMove was called with an unknown id on a board that satisfies the
\* win condition, and no completion followed
C18_Witness ==
  /\ last.op = "move" /\ last.reason = "Invalid tube IDs"
  /\ ~OnBoard(GS.tubes, last.from) /\ OnBoard(GS.tubes, last.to)
  /\ winConditionMet(variant, GS) /\ ~gameComplete /\ completions = 0

\* C19: a move attempt issued by a tap never has the same tube as source and
\* as destination: the two ids differ and they name different tubes of the
\* board.
C19_NoSameTubeAttempt ==
  [][(MoveStep /\ last'.op = "tap") =>
       /\ last'.from # last'.to
       /\ \A i, j \in DOMAIN Before.tubes :
            (Before.tubes[i].id = last'.from /\ Before.tubes[j].id = last'.to) => i # j]_vars

\* the pending tube was tapped a second time, on a board on which taps had
\* already carried out a move
C19_Witness ==
  /\ last.op = "tap" /\ last.result = "deselected"
  /\ HasBoard /\ GS.moves >= 1 /\ selectedTube = NoTube

\* (a, b) is a legal move on the board: two different tube ids of the board,
\* the source holds a ball and the destination has free capacity
LegalMove(a, b) ==
  /\ a # b /\ OnBoard(GS.tubes, a) /\ OnBoard(GS.tubes, b)
  /\ \E i \in DOMAIN GS.tubes :
        /\ GS.tubes[i].id = a /\ \A j \in 1..(i - 1) : GS.tubes[j].id # a
        /\ Len(GS.tubes[i].balls) > 0
  /\ \E i \in DOMAIN GS.tubes :
        /\ GS.tubes[i].id = b /\ \A j \in 1..(i - 1) : GS.tubes[j].id # b
        /\ Len(GS.tubes[i].balls) < GS.tubes[i].capacity

\* a tap on tubeId that leaves the board as it is
QuietTap(tubeId) == Tap(tubeId) /\ currentGameState' = currentGameState

\* with a pending, a tap on b carries out the move (a, b) and it is accepted
TapCompletes(a, b) ==
  /\ selectedTube = a
  /\ ENABLED (/\ Tap(b)
              /\ last'.result = "accepted" /\ last'.from = a /\ last'.to = b
              /\ currentGameState' # currentGameState)

\* taps that carry out the move (a, b): b when a is pending; a, b when no tube
\* is pending; otherwise the pending tube (to clear it), a, b
TapsCarryOut(a, b) ==
  IF selectedTube = a THEN TapCompletes(a, b)
  ELSE IF selectedTube = NoTube THEN ENABLED (QuietTap(a) /\ TapCompletes(a, b)')
  ELSE ENABLED (/\ QuietTap(selectedTube)
                /\ (ENABLED (QuietTap(a) /\ TapCompletes(a, b)'))')

\* C20: after a rejected move attempt every legal move of the board can still
\* be carried out by further taps, with no reset: at most three taps lead to
\* the attempt, and it is accepted.
C20_PlayableAfterRejection ==
  (HasBoard /\ last.result = "rejected" /\ GS.moves < MaxMoves) =>
    \A a \in TapIds, b \in TapIds : LegalMove(a, b) => TapsCarryOut(a, b)

\* a tap attempt was rejected and a legal move starts at a tube other than
\* the one left pending
C20_Witness ==
  /\ HasBoard /\ last.op = "tap" /\ last.result = "rejected" /\ GS.moves < MaxMoves
  /\ selectedTube # NoTube
  /\ \E a \in TapIds, b \in TapIds : LegalMove(a, b) /\ a # selectedTube

\* C21: the tubes of the current board have pairwise distinct ids, so that an
\* id names exactly one tube.
C21_DistinctTubeIds ==
  HasBoard =>
    \A i \in DOMAIN GS.tubes, j \in DOMAIN GS.tubes :
       GS.tubes[i].id = GS.tubes[j].id => i = j

\* C22: when a level load, a reset or an advance to the next level succeeds,
\* the new board has move count 0, no pending source, the completion flag
\* cleared and the tubes of the level's definition, whatever the board before.
C22_LoadResetsBoard ==
  [][last'.result = "loaded" =>
       /\ currentGameState' # Null
       /\ After.moves = 0
       /\ selectedTube' = NoTube
       /\ gameComplete' = FALSE
       /\ After.tubes = files[currentLevel'].tubes
       /\ levelsCache'[currentLevel'] = Some(files[currentLevel'])]_vars

\* the next level was loaded from a board that had been solved by pouring
C22_Witness ==
  /\ last.op = "next" /\ last.result = "loaded" /\ currentLevel = 2
  /\ levelIndex[1].completed /\ levelIndex[1].bestMoves # Null
  /\ levelIndex[1].bestMoves[1] >= 1
  /\ GS.moves = 0 /\ ~gameComplete

\* C23: in the single-pour variant an accepted move between two tubes takes
\* the top ball off the source and puts that ball on top of the destination;
\* nothing else on the board changes.
C23_SinglePour ==
  [][(variant = "single" /\ AcceptedStep /\ last'.from # last'.to) =>
       LET A == Before.tubes[FromIdx].balls
           B == Before.tubes[ToIdx].balls
       IN /\ Len(After.tubes[FromIdx].balls) = Len(A) - 1
          /\ After.tubes[FromIdx].balls = SubSeq(A, 1, Len(A) - 1)
          /\ After.tubes[ToIdx].balls = B \o <<A[Len(A)]>>
          /\ \A i \in DOMAIN Before.tubes :
               i \notin {FromIdx, ToIdx} => After.tubes[i] = Before.tubes[i]]_vars

\* one ball was poured although the source held more and the destination had
\* room for more
C23_Witness ==
  /\ variant = "single" /\ last.op = "move" /\ last.result = "accepted"
  /\ last.from # last.to /\ last.k = 1
  /\ LET f == GS.tubes[FindTube(GS.tubes, last.from)]
         t == GS.tubes[FindTube(GS.tubes, last.to)]
     IN Len(f.balls) >= 1 /\ Len(t.balls) < t.capacity

\* C24: in the shape-based variant, completion is triggered after an accepted
\* move iff the move count has reached minMoves, some tube is empty and some
\* tube holds exactly its capacity.
C24_ShapeBasedWin ==
  [][(variant = "single" /\ AcceptedStep) =>
       (CompletionTriggered <=>
          /\ After.moves >= After.minMoves
          /\ \E i \in DOMAIN After.tubes : Len(After.tubes[i].balls) = 0
          /\ \E i \in DOMAIN After.tubes :
                Len(After.tubes[i].balls) = After.tubes[i].capacity)]_vars

\* a move left one tube empty and one tube full before minMoves was reached,
\* and the level was not completed
C24_Witness ==
  /\ variant = "single" /\ last.op = "move" /\ last.result = "accepted"
  /\ ~last.won /\ ~gameComplete /\ GS.moves < GS.minMoves
  /\ \E i \in DOMAIN GS.tubes : Len(GS.tubes[i].balls) = 0
  /\ \E i \in DOMAIN GS.tubes : Len(GS.tubes[i].balls) = GS.tubes[i].capacity

\* C25: the pending source, when there is one, is a tube of the current board
\* that holds at least one ball, and no move attempt issued by a tap is
\* rejected for an empty source.
C25_PendingSourceHoldsBall ==
  /\ selectedTube # NoTube =>
       /\ HasBoard
       /\ \E i \in DOMAIN GS.tubes :
             /\ GS.tubes[i].id = selectedTube
             /\ \A j \in 1..(i - 1) : GS.tubes[j].id # selectedTube
             /\ Len(GS.tubes[i].balls) >= 1
  /\ (last.op = "tap" /\ last.result = "rejected") => last.reason # "No balls to move"

\* a tube was still pending when the load of another level failed
C25_Witness ==
  /\ selectedTube # NoTube /\ HasBoard
  /\ last.op = "fetch" /\ last.result = "loadfailed"

ClonedFrom(gs, levelData) ==
  /\ gs.levelId = levelData.levelId
  /\ gs.colors = levelData.colors
  /\ gs.minMoves = levelData.minMoves
  /\ gs.stars = levelData.stars
  /\ gs.desiredLevel = levelData.desiredLevel
  /\ DOMAIN gs.tubes = DOMAIN levelData.tubes
  /\ \A i \in DOMAIN gs.tubes :
        /\ gs.tubes[i].id = levelData.tubes[i].id
        /\ gs.tubes[i].capacity = levelData.tubes[i].capacity

\* C27: whatever loads are pending and however they interleave with taps, the
\* current level id names the cached definition the current board was cloned
\* from, and a completion is recorded against that level and no other.
C27_CurrentLevelNamesBoard ==
  [][/\ currentGameState' # Null =>
          /\ levelsCache'[currentLevel'] # Null
          /\ ClonedFrom(After, levelsCache'[currentLevel'][1])
     /\ CompletionTriggered =>
          /\ \E i \in DOMAIN levelIndex' :
                levelIndex'[i].id = currentLevel /\ levelIndex'[i].completed
          /\ \A i \in DOMAIN levelIndex' :
                levelIndex'[i].id # currentLevel =>
                  /\ levelIndex'[i].completed = levelIndex[i].completed
                  /\ levelIndex'[i].stars = levelIndex[i].stars
                  /\ levelIndex'[i].bestMoves = levelIndex[i].bestMoves]_vars

\* a tap completed the board of level 1 while the load of level 2 was pending
C27_Witness ==
  /\ pending = <<2>> /\ currentLevel = 1 /\ gameComplete
  /\ last.op = "tap" /\ last.won
  /\ levelIndex[1].completed /\ ~levelIndex[2].completed

\* C28: when a load requested later has already finished and the fetch of a
\* load requested earlier then succeeds, both have finished, and the board and
\* the current level id are still those of the level requested last.
C28_LastRequestedWins ==
  [][(/\ last.op \in {"reset", "next", "select"} /\ last.result = "loaded"
      /\ pending # <<>>
      /\ last'.op = "fetch" /\ last'.result = "loaded")
     => /\ currentLevel' = currentLevel
        /\ ClonedFrom(After, files[currentLevel])]_vars

\* C29: no step lowers the recorded stars of a level or raises its recorded
\* best move count.
C29_ProgressMonotonic ==
  [][\A i \in (DOMAIN levelIndex) \cap (DOMAIN levelIndex') :
       /\ levelIndex'[i].stars >= levelIndex[i].stars
       /\ levelIndex[i].bestMoves # Null =>
            /\ levelIndex'[i].bestMoves # Null
            /\ levelIndex'[i].bestMoves[1] <= levelIndex[i].bestMoves[1]]_vars

\* the board after n consecutive single pours from the tube at f to the tube at
\* t, each one checked as attemptMove of the single-pour class checks it;
\* Null when one of them is rejected
RECURSIVE SinglePours(_, _, _, _)
SinglePours(gs, f, t, n) ==
  IF n = 0 THEN Some(gs)
  ELSE IF isValidMove("single", gs.tubes[f], gs.tubes[t]) # "" THEN Null
  ELSE SinglePours(performMove("single", gs, f, t), f, t, n - 1)

\* C30: an accepted bulk pour from A to B leaves the tubes as
\* min(length(A), free space of B) consecutive single pours from A to B do,
\* every one of them accepted; the bulk pour counts 1 move, the single pours
\* count that number of moves.
C30_BulkIsRepeatedSingle ==
  [][(variant = "bulk" /\ AcceptedStep) =>
       LET A == Before.tubes[FromIdx]
           B == Before.tubes[ToIdx]
           n == Min(Len(A.balls), B.capacity - Len(B.balls))
           singles == SinglePours(Before, FromIdx, ToIdx, n)
       IN /\ n >= 1
          /\ singles # Null
          /\ singles[1].tubes = After.tubes
          /\ singles[1].moves = Before.moves + n
          /\ After.moves = Before.moves + 1
          /\ [singles[1] EXCEPT !.moves = 0] = [After EXCEPT !.moves = 0]]_vars

\* a bulk pour moved two balls and stopped because the destination was full
C30_Witness ==
  /\ variant = "bulk" /\ last.op = "move" /\ last.result = "accepted" /\ last.k = 2
  /\ LET f == GS.tubes[FindTube(GS.tubes, last.from)]
         t == GS.tubes[FindTube(GS.tubes, last.to)]
     IN Len(f.balls) >= 1 /\ Len(t.balls) = t.capacity

\* C31: when stars[3] <= stars[2] <= stars[1], the stars awarded at completion
\* are as many as the ranks i in 1..3 with moveCount <= stars[i], which is
\* the number of stars the display shows as earned at that move count.
C31_StarsMatchDisplay ==
  (HasBoard /\ last.won /\ GS.stars[3] <= GS.stars[2] /\ GS.stars[2] <= GS.stars[1]) =>
    /\ last.stars = Cardinality({i \in 1..3 : GS.moves <= GS.stars[i]})
    /\ last.stars = Cardinality(starsShown(GS.moves, GS.stars))

\* two stars were awarded under three different thresholds
C31_Witness ==
  /\ HasBoard /\ last.won /\ last.stars = 2
  /\ GS.stars[3] < GS.stars[2] /\ GS.stars[2] < GS.stars[1]
  /\ Cardinality(starsShown(GS.moves, GS.stars)) = 2

\* C32: right after an accepted bulk pour the source tube is empty or the
\* destination tube is at capacity.
C32_BulkPourExhausts ==
  [][(variant = "bulk" /\ AcceptedStep) =>
       \/ Len(After.tubes[FromIdx].balls) = 0
       \/ Len(After.tubes[ToIdx].balls) = After.tubes[ToIdx].capacity]_vars

\* a bulk pour of two balls emptied the source and left room in the destination
C32_Witness ==
  /\ variant = "bulk" /\ last.op = "move" /\ last.result = "accepted" /\ last.k = 2
  /\ LET f == GS.tubes[FindTube(GS.tubes, last.from)]
         t == GS.tubes[FindTube(GS.tubes, last.to)]
     IN Len(f.balls) = 0 /\ Len(t.balls) < t.capacity

\* C33: every level marked completed has its successor in index order, if it
\* has one, unlocked.
C33_CompletedUnlocksNext ==
  \A i \in DOMAIN levelIndex :
     (levelIndex[i].completed /\ i < Len(levelIndex)) => levelIndex[i + 1].unlocked

\* the second level was completed before the first
C33_Witness ==
  /\ last.op = "complete" /\ last.result = "done"
  /\ Len(levelIndex) = 3
  /\ ~levelIndex[1].completed /\ levelIndex[2].completed /\ ~levelIndex[2].unlocked
  /\ levelIndex[3].unlocked

\* the four progress fields of two index entries agree
SameProgress(a, b) ==
  /\ a.unlocked = b.unlocked
  /\ a.completed = b.completed
  /\ a.stars = b.stars
  /\ a.bestMoves = b.bestMoves

\* C34: saveProgress followed by loadProgress against an index of the same
\* version and the same level ids restores each level's unlocked, completed,
\* stars and bestMoves to the values that were saved: a save stores the four
\* fields of every level as the index has them, and a reload leaves every
\* level of the fresh index with the four fields stored under its id.
C34_SaveLoadRoundTrip ==
  [][/\ (last'.op \in {"save", "complete"} /\ last'.result = "done") =>
          /\ localStorage' # Null
          /\ Len(localStorage'[1].levels) = Len(levelIndex')
          /\ \A i \in DOMAIN levelIndex' :
                /\ localStorage'[1].levels[i].id = levelIndex'[i].id
                /\ SameProgress(localStorage'[1].levels[i], levelIndex'[i])
     /\ (last'.op = "reload" /\ localStorage # Null) =>
          /\ Len(levelIndex') = Len(localStorage[1].levels)
          /\ \A i \in DOMAIN levelIndex' :
                \E k \in DOMAIN localStorage[1].levels :
                   /\ localStorage[1].levels[k].id = levelIndex'[i].id
                   /\ SameProgress(levelIndex'[i], localStorage[1].levels[k])]_vars

\* a reload has restored a completed first level with its stars and its best
\* move count, and the unlocked second level
C34_Witness ==
  /\ last.op = "reload"
  /\ localStorage # Null
  /\ levelIndex[1].completed /\ levelIndex[1].stars = 3
  /\ levelIndex[1].bestMoves = Some(1)
  /\ levelIndex[2].unlocked /\ ~levelIndex[2].completed
  /\ ~levelIndex[3].unlocked

\* the board is of the level the converter wrote
PlaysConverted == conversion # Null /\ conversion[1].written /\ HasBoard /\ currentLevel = 1

\* C35: a level converted from a puzzle with a given desiredLevel is won in
\* the game exactly when every tube holds that desiredLevel number of balls.
C35_ConverterTargetIsWinTarget ==
  (PlaysConverted /\ variant = "bulk") =>
     (winConditionMet(variant, GS) <=>
        \A i \in DOMAIN GS.tubes :
           Len(GS.tubes[i].balls) = conversion[1].puzzle.desiredLevel)

\* C36: in both converters convertPuzzle gives tube i exactly initialState[i]
\* balls and capacity bottleCapacities[i], whatever the puzzle and the shuffle.
C36_TubesAsPuzzleSays ==
  (conversion # Null /\ conversion[1].written) =>
     /\ Len(files[1].tubes) = Len(conversion[1].puzzle.initialState)
     /\ \A i \in DOMAIN files[1].tubes :
           /\ Len(files[1].tubes[i].balls) = conversion[1].puzzle.initialState[i]
           /\ files[1].tubes[i].capacity = conversion[1].puzzle.bottleCapacities[i]

====
